---- MODULE Spec2Model ----
(***************************************************************************)
(* checkpoint_schedules: the H-Revolve cost tables and sequence builder    *)
(* (hrevolve_sequence/hrevolve.py), the H-Revolve action adapter           *)
(* (HRevolveCheckpointSchedule.iter) and the two-level periodic/binomial   *)
(* schedule (TwoLevelCheckpointSchedule._iterator).                        *)
(*                                                                         *)
(* Costs are integers (the default 0.0/0.1/1.0/2.0 costs scaled by ten     *)
(* are integers too); float("inf") is the saturating value Inf.            *)
(***************************************************************************)
EXTENDS Integers, Sequences, FiniteSets, TLC

VARIABLES
    cfg,          \* how the schedule object was built: its constructor arguments
    schedule,     \* HRevolveCheckpointSchedule._schedule: the operation vector
    closed,       \* TRUE when `schedule` holds the whole vector
    build,        \* outcome of the constructor: "new", "ok", or the exception raised
    max_n,        \* CheckpointSchedule._max_n (None while unset)
    n,            \* CheckpointSchedule._n
    r,            \* CheckpointSchedule._r
    i,            \* iter(): index of the operation being processed (0-based)
    pc,           \* position of the generator
    snapshots,    \* iter(): the set of live steps; _iterator(): the snapshot stack
    deferred_cp,  \* iter(): the pending write, {} for None or {<<step, storage>>}
    cp_delete,    \* iter(): the local cp_delete, "unbound" until first assigned
    exhausted,    \* HRevolveCheckpointSchedule._exhausted
    err,          \* the exception that ended the generator, "none" otherwise
    out,          \* the actions yielded so far, in order
    tl,           \* _iterator(): the loop locals n0s and n0
    advanced      \* n_advance: the results returned so far, by arguments

vars == <<cfg, schedule, closed, build, max_n, n, r, i, pc, snapshots,
          deferred_cp, cp_delete, exhausted, err, out, tl, advanced>>

(* None, for max_n: the schedule does not know its length yet.             *)
None == -1

----------------------------------------------------------------------------
(* Bounds of the model.                                                    *)

MaxN == 4
MaxRam == 3
MaxDisk == 1
MaxCost == 1
MaxStepCost == 2
MaxOps == 5
MaxGivenN == 2
MaxPeriod == 4
MaxBinomial == 2
MaxSteps == 6
MaxPass == 2

(* float("inf") of the tables: larger than any finite cost in the bounds.  *)
Inf == 1000000

----------------------------------------------------------------------------
(* basic_functions: Operation, Sequence.shift, argmin.                     *)

Op(type, index) == [type |-> type, index |-> index]

ShiftOp(op, d) ==
    IF Len(op.index) = 1 THEN Op(op.type, <<op.index[1] + d>>)
    ELSE IF op.type \in {"Read", "Write", "Discard"}
         THEN Op(op.type, <<op.index[1], op.index[2] + d>>)
         ELSE Op(op.type, <<op.index[1] + d, op.index[2] + d>>)

Shift(s, d) == [x \in 1..Len(s) |-> ShiftOp(s[x], d)]

Plus(a, b) == IF a >= Inf \/ b >= Inf THEN Inf ELSE a + b

MinOf(S) == CHOOSE x \in S : \A y \in S : x <= y

MaxOf(s) == CHOOSE x \in {s[y] : y \in 1..Len(s)} : \A y \in 1..Len(s) : s[y] <= x

SeqMin(s) == MinOf({s[x] : x \in 1..Len(s)})

(* argmin(list_mem): list_mem[j-1] is the cost of split point j, and the   *)
(* smallest j attaining the minimum is returned.                           *)
argmin(s) == MinOf({x \in 1..Len(s) : s[x] = SeqMin(s)})

----------------------------------------------------------------------------
(* get_hopt_table.  A problem p is a record                                *)
(*   [lmax, cvect, wvect, rvect, cfwd, cbwd];                              *)
(* the vectors are sequences, level k (0-based) is element k + 1.          *)
(* A table is a function of the cell <<k, l, m>>.                          *)

Levels(p) == Len(p.cvect)

Cells(p) ==
    {c \in (0..(Levels(p) - 1)) \X (0..p.lmax) \X (0..MaxOf(p.cvect)) :
        c[3] <= p.cvect[c[1] + 1]}

(* Lines 64-76: both tables start at inf, then the borders l = 0, l = 1.   *)
BorderOptp(p, c) ==
    IF c[2] = 0 THEN p.cbwd
    ELSE IF c[2] = 1 /\ ~(c[3] = 0 /\ c[1] = 0)
         THEN p.cfwd + 2 * p.cbwd + p.rvect[1]
         ELSE Inf

BorderOpt(p, c) ==
    IF c[2] = 0 THEN p.cbwd
    ELSE IF c[2] = 1 /\ ~(c[3] = 0 /\ c[1] = 0)
         THEN p.wvect[1] + BorderOptp(p, c)
         ELSE Inf

Border(p) ==
    [optp |-> [c \in Cells(p) |-> BorderOptp(p, c)],
     opt  |-> [c \in Cells(p) |-> BorderOpt(p, c)]]

SetCell(t, c, vp, v) ==
    [optp |-> [t.optp EXCEPT ![c] = vp], opt |-> [t.opt EXCEPT ![c] = v]]

(* The loops running to lmax included.                                     *)
FillWhole(p) == p.lmax

(* range(2, lmax): the last length the loops of lines 79, 83, 89, 92 fill. *)
FillEnd(p) == p.lmax - 1

(* Lines 79-81: level 0, one slot, closed form.                            *)
Level0OneOptp(p, l) ==
    (l + 1) * p.cbwd + ((l * (l + 1)) \div 2) * p.cfwd + l * p.rvect[1]

RECURSIVE Level0One(_, _, _)
Level0One(p, t, l) ==
    IF l > FillEnd(p) THEN t
    ELSE Level0One(p,
                   SetCell(t, <<0, l, 1>>, Level0OneOptp(p, l),
                           p.wvect[1] + Level0OneOptp(p, l)),
                   l + 1)

(* Lines 82-85: level 0, m >= 2 slots.                                     *)
Level0ListMem(p, t, l, m) ==
    [j \in 1..(l - 1) |->
        Plus(Plus(Plus(j * p.cfwd, t.opt[<<0, l - j, m - 1>>]), p.rvect[1]),
             t.optp[<<0, j - 1, m>>])]

Level0Optp(p, t, l, m) ==
    MinOf({Level0ListMem(p, t, l, m)[j] : j \in 1..(l - 1)}
          \cup {t.optp[<<0, l, 1>>]})

RECURSIVE Level0L(_, _, _, _)
Level0L(p, t, m, l) ==
    IF l > FillEnd(p) THEN t
    ELSE Level0L(p,
                 SetCell(t, <<0, l, m>>, Level0Optp(p, t, l, m),
                         Plus(p.wvect[1], Level0Optp(p, t, l, m))),
                 m, l + 1)

RECURSIVE Level0M(_, _, _)
Level0M(p, t, m) ==
    IF m > p.cvect[1] THEN t
    ELSE Level0M(p, Level0L(p, t, m, 2), m + 1)

(* Lines 89-90: level k >= 1 with no slot falls back to the level below.   *)
RECURSIVE LevelKZero(_, _, _, _)
LevelKZero(p, t, k, l) ==
    IF l > FillEnd(p) THEN t
    ELSE LevelKZero(p,
                    [t EXCEPT !.opt[<<k, l, 0>>] = t.opt[<<k - 1, l, p.cvect[k]>>]],
                    k, l + 1)

(* Lines 91-94: level k >= 1, m >= 1 slots, l from 1 on.                   *)
LevelKListMem(p, t, k, l, m) ==
    [j \in 1..(l - 1) |->
        Plus(Plus(Plus(j * p.cfwd, t.opt[<<k, l - j, m - 1>>]), p.rvect[k + 1]),
             t.optp[<<k, j - 1, m>>])]

LevelKOptp(p, t, k, l, m) ==
    MinOf({t.opt[<<k - 1, l, p.cvect[k]>>]}
          \cup {LevelKListMem(p, t, k, l, m)[j] : j \in 1..(l - 1)})

LevelKOpt(p, t, k, l, m) ==
    MinOf({t.opt[<<k - 1, l, p.cvect[k]>>],
           Plus(p.wvect[k + 1], LevelKOptp(p, t, k, l, m))})

RECURSIVE LevelKL(_, _, _, _, _)
LevelKL(p, t, k, m, l) ==
    IF l > FillEnd(p) THEN t
    ELSE LevelKL(p,
                 SetCell(t, <<k, l, m>>, LevelKOptp(p, t, k, l, m),
                         LevelKOpt(p, t, k, l, m)),
                 k, m, l + 1)

RECURSIVE LevelKM(_, _, _, _)
LevelKM(p, t, k, m) ==
    IF m > p.cvect[k + 1] THEN t
    ELSE LevelKM(p, LevelKL(p, t, k, m, 1), k, m + 1)

RECURSIVE LevelK(_, _, _)
LevelK(p, t, k) ==
    IF k > Levels(p) - 1 THEN t
    ELSE LevelK(p, LevelKM(p, LevelKZero(p, t, k, 2), k, 1), k + 1)

(* Line 80 writes optp[0][l][1]: an IndexError when level 0 has no slot    *)
(* and the loop runs at all.                                               *)
TableError(p) ==
    IF Len(p.wvect) # Len(p.cvect) \/ Len(p.rvect) # Len(p.cvect)
    THEN "AssertionError"
    ELSE IF p.cvect[1] = 0 /\ FillEnd(p) >= 2 THEN "IndexError"
    ELSE "none"

get_hopt_table(p) ==
    IF TableError(p) # "none"
    THEN [err |-> TableError(p), optp |-> <<>>, opt |-> <<>>]
    ELSE LET t == LevelK(p, Level0M(p, Level0One(p, Border(p), 2), 2), 1)
         IN  [err |-> "none", optp |-> t.optp, opt |-> t.opt]

----------------------------------------------------------------------------
(* hrevolve_recurse and hrevolve_aux.  A result is [err, ops]: the         *)
(* exception raised ("none" when the call returns) and the flattened       *)
(* operation sequence.  t is the pair of tables (hoptp, hopt) every call   *)
(* shares.                                                                 *)

Ok(ops) == [err |-> "none", ops |-> ops]

Raise(e) == [err |-> e, ops |-> <<>>]

(* sequence.insert / insert_sequence: an exception in either part ends     *)
(* the call.                                                               *)
Cat(a, b) ==
    IF a.err # "none" THEN a
    ELSE IF b.err # "none" THEN b
    ELSE Ok(a.ops \o b.ops)

(* insert_sequence of a sub-sequence that was not shifted.                  *)
Unshifted(a, d) == a

ShiftResult(a, d) == IF a.err # "none" THEN a ELSE Ok(Shift(a.ops, d))

(* Lines 324-331, the fixed schedule of one step.                          *)
OneStep ==
    <<Op("Write", <<0, 0>>), Op("Forward", <<0, 1>>),
      Op("Write_Forward", <<0, 1>>), Op("Backward", <<1>>),
      Op("Discard_Forward", <<0, 1>>), Op("Read", <<0, 0>>),
      Op("Backward", <<0>>), Op("Discard", <<0, 0>>)>>

(* Lines 156-167: hrevolve_aux with l = 1.                                 *)
AuxOneStep(p, K) ==
    (IF p.wvect[1] + p.rvect[1] < p.rvect[K + 1]
     THEN <<Op("Write", <<0, 0>>)>> ELSE <<>>)
    \o <<Op("Forward", <<0, 1>>), Op("Write_Forward", <<0, 1>>),
         Op("Backward", <<1>>), Op("Discard_Forward", <<0, 1>>)>>
    \o (IF p.wvect[1] + p.rvect[1] < p.rvect[K + 1]
        THEN <<Op("Read", <<0, 0>>)>> ELSE <<Op("Read", <<K, 0>>)>>)
    \o <<Op("Backward", <<0>>), Op("Discard", <<0, 0>>)>>

(* Lines 170-179: level 0 with one slot, index from l - 1 down to 0.       *)
RECURSIVE LinearScan(_, _)
LinearScan(l, index) ==
    IF index < 0
    THEN <<Op("Read", <<0, 0>>), Op("Backward", <<0>>), Op("Discard", <<0, 0>>)>>
    ELSE (IF index # l - 1 THEN <<Op("Read", <<0, 0>>)>> ELSE <<>>)
         \o <<Op("Forward", <<0, index + 1>>),
              Op("Write_Forward", <<0, index + 1>>),
              Op("Backward", <<index + 1>>),
              Op("Discard_Forward", <<0, index + 1>>)>>
         \o LinearScan(l, index - 1)

(* Lines 182 and 202-207.                                                  *)
list_mem(p, t, l, K, cmem) ==
    [j \in 1..(l - 1) |->
        Plus(Plus(Plus(j * p.cfwd, t.opt[<<K, l - j, cmem - 1>>]), p.rvect[K + 1]),
             t.optp[<<K, j - 1, cmem>>])]

(* Lines 185 and 210: the Forward that opens a split at jmin.              *)
SplitForward(K, jmin) ==
    IF K = 0 THEN Op("Forward", <<0, jmin>>) ELSE Op("Forward", <<0, jmin - 1>>)

(* Lines 197-200: cfwd is passed as a seventh positional argument, which   *)
(* is hoptp, and hoptp is passed by keyword as well.                       *)
AuxDelegateOneSlot(l) == Raise("TypeError")

RECURSIVE hrevolve_recurse(_, _, _, _, _)
RECURSIVE hrevolve_aux(_, _, _, _, _)

hrevolve_aux(l, K, cmem, p, t) ==
    IF cmem = 0 THEN Raise("KeyError")
    ELSE IF l = 0 THEN Ok(<<Op("Backward", <<0>>)>>)
    ELSE IF l = 1 THEN Ok(AuxOneStep(p, K))
    ELSE IF K = 0 /\ cmem = 1 THEN Ok(LinearScan(l, l - 1))
    ELSE IF K = 0 THEN
        IF SeqMin(list_mem(p, t, l, 0, cmem)) < t.optp[<<0, l, 1>>]
        THEN LET jmin == argmin(list_mem(p, t, l, 0, cmem))
             IN  Cat(Ok(<<SplitForward(0, jmin)>>),
                 Cat(ShiftResult(hrevolve_recurse(l - jmin, 0, cmem - 1, p, t), jmin),
                 Cat(Ok(<<Op("Read", <<0, 0>>)>>),
                     hrevolve_aux(jmin - 1, 0, cmem, p, t))))
        ELSE AuxDelegateOneSlot(l)
    ELSE
        IF SeqMin(list_mem(p, t, l, K, cmem)) < t.opt[<<K - 1, l, p.cvect[K]>>]
        THEN LET jmin == argmin(list_mem(p, t, l, K, cmem))
             IN  Cat(Ok(<<SplitForward(K, jmin)>>),
                 Cat(ShiftResult(hrevolve_recurse(l - jmin, K, cmem - 1, p, t), jmin),
                 Cat(Ok(<<Op("Read", <<K, 0>>)>>),
                     hrevolve_aux(jmin - 1, K, cmem, p, t))))
        ELSE hrevolve_recurse(l, K - 1, p.cvect[K], p, t)

hrevolve_recurse(l, K, cmem, p, t) ==
    IF l = 0 THEN Ok(<<Op("Backward", <<0>>)>>)
    ELSE IF K = 0 /\ cmem = 0 THEN Raise("KeyError")
    ELSE IF l = 1 THEN Ok(OneStep)
    ELSE IF K = 0
         THEN Cat(Ok(<<Op("Write", <<0, 0>>)>>), hrevolve_aux(l, 0, cmem, p, t))
    ELSE IF Plus(p.wvect[K + 1], t.optp[<<K, l, cmem>>]) < t.opt[<<K - 1, l, p.cvect[K]>>]
         THEN Cat(Ok(<<Op("Write", <<K, 0>>)>>), hrevolve_aux(l, K, cmem, p, t))
         ELSE hrevolve_recurse(l, K - 1, p.cvect[K], p, t)

(* hrevolve(l, cvect, wvect, rvect, **params): the tables are built once,  *)
(* for lmax = l, by the outermost hrevolve_recurse (lines 313-314).        *)
hrevolve(p) ==
    LET t == get_hopt_table(p)
    IN  IF t.err # "none" THEN Raise(t.err)
        ELSE hrevolve_recurse(p.lmax, Levels(p) - 1, p.cvect[Levels(p)], p, t)

----------------------------------------------------------------------------
(* schedule.py: the actions a schedule yields, each a tuple of its name    *)
(* and its arguments.                                                      *)

Clear(clear_ics, clear_data) == <<"Clear", clear_ics, clear_data>>

Configure(store_ics, store_data) == <<"Configure", store_ics, store_data>>

(* Forward(n0, n1) of the H-Revolve adapter.                               *)
Forward(n_0, n_1) == <<"Forward", n_0, n_1>>

(* Forward(n0, n1, write_ics, write_adj_deps, storage) of the two-level    *)
(* schedule.                                                               *)
ForwardTo(n_0, n_1, write_ics, write_adj_deps, storage) ==
    <<"Forward", n_0, n_1, write_ics, write_adj_deps, storage>>

(* Reverse(n1, n0) and Reverse(n1, n0, clear_adj_deps).                    *)
Reverse(n_1, n_0) == <<"Reverse", n_1, n_0>>

ReverseClear(n_1, n_0, clear_adj_deps) == <<"Reverse", n_1, n_0, clear_adj_deps>>

Read(n_0, storage, delete) == <<"Read", n_0, storage, delete>>

Write(n_0, storage) == <<"Write", n_0, storage>>

Copy(n_0, from, to) == <<"Copy", n_0, from, to>>

Move(n_0, from, to) == <<"Move", n_0, from, to>>

EndForward == <<"EndForward">>

EndReverse(e) == <<"EndReverse", e>>

----------------------------------------------------------------------------
(* HRevolveCheckpointSchedule.iter, lines 52-89: action(i) on one          *)
(* operation.  The result is [err, cp_action, n_0, n_1, storage].          *)

Parsed(cp_action, n_0, n_1, storage) ==
    [err |-> "none", cp_action |-> cp_action, n_0 |-> n_0, n_1 |-> n_1,
     storage |-> storage]

Unparsed(e) ==
    [err |-> e, cp_action |-> "", n_0 |-> -1, n_1 |-> -1, storage |-> ""]

(* Lines 68-71: n_0 = action.index; n_1 = n_0 + 1.  A pair index makes     *)
(* n_0 + 1 a TypeError.                                                    *)
ForwardIndex(op) ==
    IF Len(op.index) = 1
    THEN Parsed("Forward", op.index[1], op.index[1] + 1, "")
    ELSE Unparsed("TypeError")

StorageName(level) == IF level = 0 THEN "RAM" ELSE "disk"

action(op) ==
    IF op.type = "Forward" THEN ForwardIndex(op)
    ELSE IF op.type = "Forwards" THEN
        IF Len(op.index) # 2 THEN Unparsed("TypeError")
        ELSE IF op.index[2] <= op.index[1] THEN Unparsed("Invalid schedule")
        ELSE Parsed("Forward", op.index[1], op.index[2] + 1, "")
    ELSE IF op.type = "Backward" THEN Parsed("Backward", op.index[1], -1, "")
    ELSE IF op.type \in {"Read", "Write", "Discard"} THEN
        IF Len(op.index) # 2 THEN Unparsed("TypeError")
        ELSE IF op.index[1] \notin {0, 1} THEN Unparsed("KeyError")
        ELSE Parsed(op.type, op.index[2], -1, StorageName(op.index[1]))
    ELSE Unparsed("Unexpected action")

----------------------------------------------------------------------------
(* HRevolveCheckpointSchedule.__init__ and the vector the adapter walks.   *)
(*                                                                         *)
(* cfg.source = "hrevolve": the constructor of lines 35-47, the vector is  *)
(* what hrevolve returns.  cfg.source = "given": the adapter is handed an  *)
(* arbitrary vector; the adapter only reads the vector, so each operation  *)
(* is fixed when the adapter first needs it (Supply, Close), which gives   *)
(* the same runs as fixing the whole vector beforehand.                    *)

CostPairs == (0..MaxCost) \X (0..MaxCost)

HRevolveConfigs ==
    [source : {"hrevolve"}, max_n : 1..MaxN,
     snapshots_in_ram : 0..MaxRam, snapshots_on_disk : 0..MaxDisk,
     wvect : CostPairs, rvect : CostPairs,
     cfwd : 1..MaxStepCost, cbwd : 1..MaxStepCost]

GivenConfigs == [source : {"given"}, max_n : 1..MaxGivenN]

(* The arguments of TwoLevelCheckpointSchedule, the ones its constructor   *)
(* rejects among them.                                                     *)
TwoLevelConfigs ==
    [source : {"twolevel"}, period : 0..MaxPeriod,
     binomial_snapshots : 0..MaxBinomial,
     binomial_storage : {"RAM", "disk", "FWD_RESTART"}]

Problem(c) ==
    [lmax |-> c.max_n, cvect |-> <<c.snapshots_in_ram, c.snapshots_on_disk>>,
     wvect |-> c.wvect, rvect |-> c.rvect, cfwd |-> c.cfwd, cbwd |-> c.cbwd]

(* The operations a given vector is made of: every kind the adapter       *)
(* parses, at every step of 0..m.  Reads and writes use level 0; discards  *)
(* use both levels, so a discard that does not match the preceding read    *)
(* in its storage is among them.                                           *)
GivenOps(m) ==
    {Op("Forward", <<s>>) : s \in 0..m}
    \cup {Op("Forward", <<0, s>>) : s \in 1..m}
    \cup {Op("Forwards", <<a, b>>) : a \in 0..m, b \in 0..m}
    \cup {Op("Backward", <<s>>) : s \in 0..m}
    \cup {Op(t, <<0, s>>) : t \in {"Read", "Write", "Discard"}, s \in 0..m}
    \cup {Op("Discard", <<1, s>>) : s \in 0..m}
    \cup {Op("Write_Forward", <<0, 1>>), Op("Discard_Forward", <<0, 1>>)}

(* The operations a vector of this run may hold.                           *)
VectorOps == IF cfg.source = "given" THEN GivenOps(cfg.max_n) ELSE {}

(* _iterator() before its first period block.                              *)
NoBlock == [n0s |-> 0, n0 |-> 0]

Init ==
    /\ cfg \in HRevolveConfigs \cup GivenConfigs \cup TwoLevelConfigs
    /\ schedule = <<>>
    /\ closed = FALSE
    /\ build = "new"
    /\ max_n = None
    /\ n = 0
    /\ r = 0
    /\ i = 0
    /\ pc = "new"
    /\ snapshots = IF cfg.source = "twolevel" THEN <<>> ELSE {}
    /\ deferred_cp = {}
    /\ cp_delete = "unbound"
    /\ exhausted = FALSE
    /\ err = "none"
    /\ out = <<>>
    /\ tl = NoBlock
    /\ advanced = <<>>

(* Lines 35-47.  An exception of hrevolve leaves no schedule object.       *)
Construct ==
    /\ pc = "new"
    /\ cfg.source = "hrevolve"
    /\ LET res == hrevolve(Problem(cfg))
       IN  /\ build' = IF res.err = "none" THEN "ok" ELSE res.err
           /\ schedule' = res.ops
           /\ pc' = IF res.err = "none" THEN "loop" ELSE "failed"
           /\ max_n' = IF res.err = "none" THEN cfg.max_n ELSE max_n
    /\ closed' = TRUE
    /\ UNCHANGED <<cfg, n, r, i, snapshots, deferred_cp, cp_delete, exhausted,
                   err, out, tl, advanced>>

ConstructGiven ==
    /\ pc = "new"
    /\ cfg.source = "given"
    /\ build' = "ok"
    /\ pc' = "loop"
    /\ max_n' = cfg.max_n
    /\ UNCHANGED <<cfg, schedule, closed, n, r, i, snapshots, deferred_cp,
                   cp_delete, exhausted, err, out, tl, advanced>>

----------------------------------------------------------------------------
(* HRevolveCheckpointSchedule.iter, lines 91-184.  The generator is at     *)
(* "loop" when it is about to take operation i (line 104), and at a named  *)
(* position when it is suspended at a yield inside an operation.           *)

(* A position of a given vector whose operation is not fixed yet.          *)
Hole == Op("?", <<>>)

HasOp == i < Len(schedule) /\ schedule[i + 1] # Hole

Cur == action(schedule[i + 1])

InvalidState == "Invalid checkpointing state"

InvalidSchedule == "Invalid schedule"

Yield(a) == out' = Append(out, a)

(* What an action of the generator leaves alone.                           *)
Fixed == UNCHANGED <<cfg, schedule, closed, build, max_n, tl, advanced>>

Throw(e) ==
    /\ pc' = "error"
    /\ err' = e
    /\ UNCHANGED <<n, r, i, snapshots, deferred_cp, cp_delete, exhausted, out>>

(* Line 137-139: the Read of operation i looks at operation i + 2 only     *)
(* when its step is not the next one to reverse.                           *)
NeedsLookahead ==
    /\ HasOp
    /\ Cur.err = "none"
    /\ Cur.cp_action = "Read"
    /\ deferred_cp = {}
    /\ Cur.n_0 # max_n - r - 1

(* A given vector is fixed as the adapter reads it: operation i at line    *)
(* 105 (Supply, Fill, or Close when the vector ends there), operation      *)
(* i + 2 at line 140 (LookAhead, or SupplyLast and Close when fewer than   *)
(* two operations follow the Read).                                        *)
Open == pc = "loop" /\ cfg.source = "given" /\ ~closed

Supply(op) ==
    /\ Open
    /\ Len(schedule) < MaxOps
    /\ Len(schedule) = i \/ (NeedsLookahead /\ Len(schedule) = i + 2)
    /\ schedule' = Append(schedule, op)
    /\ UNCHANGED <<cfg, closed, build, max_n, n, r, i, pc, snapshots,
                   deferred_cp, cp_delete, exhausted, err, out, tl, advanced>>

Fill(op) ==
    /\ Open
    /\ i < Len(schedule)
    /\ schedule[i + 1] = Hole
    /\ schedule' = [schedule EXCEPT ![i + 1] = op]
    /\ UNCHANGED <<cfg, closed, build, max_n, n, r, i, pc, snapshots,
                   deferred_cp, cp_delete, exhausted, err, out, tl, advanced>>

LookAhead(op) ==
    /\ Open
    /\ NeedsLookahead
    /\ Len(schedule) = i + 1
    /\ i + 3 <= MaxOps
    /\ schedule' = schedule \o <<Hole, op>>
    /\ UNCHANGED <<cfg, closed, build, max_n, n, r, i, pc, snapshots,
                   deferred_cp, cp_delete, exhausted, err, out, tl, advanced>>

SupplyLast(op) ==
    /\ Open
    /\ NeedsLookahead
    /\ Len(schedule) = i + 1
    /\ Len(schedule) < MaxOps
    /\ schedule' = Append(schedule, op)
    /\ closed' = TRUE
    /\ UNCHANGED <<cfg, build, max_n, n, r, i, pc, snapshots,
                   deferred_cp, cp_delete, exhausted, err, out, tl, advanced>>

Close ==
    /\ Open
    /\ Len(schedule) = i \/ (NeedsLookahead /\ Len(schedule) < i + 3)
    /\ closed' = TRUE
    /\ UNCHANGED <<cfg, schedule, build, max_n, n, r, i, pc, snapshots,
                   deferred_cp, cp_delete, exhausted, err, out, tl, advanced>>

Ready ==
    /\ pc = "loop"
    /\ HasOp
    /\ NeedsLookahead => (closed \/ Len(schedule) >= i + 3)

(* Line 105: action(i) raises.                                             *)
OpRaises ==
    /\ Ready
    /\ Cur.err # "none"
    /\ Throw(Cur.err)
    /\ Fixed

(* A Forward without the test of line 108.                                 *)
ForwardBeginUnchecked ==
    /\ Ready
    /\ Cur.err = "none"
    /\ Cur.cp_action = "Forward"
    /\ Yield(Clear(TRUE, TRUE))
    /\ pc' = "fwd_clear"
    /\ UNCHANGED <<n, r, i, snapshots, deferred_cp, cp_delete, exhausted, err>>
    /\ Fixed

(* Lines 107-114.                                                          *)
ForwardBegin ==
    /\ Ready
    /\ Cur.err = "none"
    /\ Cur.cp_action = "Forward"
    /\ IF Cur.n_0 # n
       THEN Throw(InvalidState)
       ELSE /\ Yield(Clear(TRUE, TRUE))
            /\ pc' = "fwd_clear"
            /\ UNCHANGED <<n, r, i, snapshots, deferred_cp, cp_delete,
                           exhausted, err>>
    /\ Fixed

ForwardConfigure ==
    /\ pc = "fwd_clear"
    /\ Yield(Configure(Cur.n_0 \notin snapshots, FALSE))
    /\ pc' = "fwd_configure"
    /\ UNCHANGED <<n, r, i, snapshots, deferred_cp, cp_delete, exhausted, err>>
    /\ Fixed

ForwardAdvance ==
    /\ pc = "fwd_configure"
    /\ n' = Cur.n_1
    /\ Yield(Forward(Cur.n_0, Cur.n_1))
    /\ pc' = "loop"
    /\ i' = i + 1
    /\ UNCHANGED <<r, snapshots, deferred_cp, cp_delete, exhausted, err>>
    /\ Fixed

(* Lines 97-102, write_deferred_cp up to its yield.                        *)
FlushStep == (CHOOSE d \in deferred_cp : TRUE)[1]

FlushWrite == Write((CHOOSE d \in deferred_cp : TRUE)[1],
                    (CHOOSE d \in deferred_cp : TRUE)[2])

(* The guard of a Backward without its second test.                        *)
BackwardGuardPosition(n_0) == n_0 = n

(* Lines 115-132.                                                          *)
BackwardGuard(n_0) == n_0 = n /\ n_0 = max_n - r - 1

BackwardBegin ==
    /\ Ready
    /\ Cur.err = "none"
    /\ Cur.cp_action = "Backward"
    /\ IF ~BackwardGuard(Cur.n_0)
       THEN Throw(InvalidState)
       ELSE IF deferred_cp # {}
       THEN /\ snapshots' = snapshots \cup {FlushStep}
            /\ Yield(FlushWrite)
            /\ pc' = "bwd_write"
            /\ UNCHANGED <<n, r, i, deferred_cp, cp_delete, exhausted, err>>
       ELSE /\ Yield(Clear(TRUE, TRUE))
            /\ pc' = "bwd_clear"
            /\ UNCHANGED <<n, r, i, snapshots, deferred_cp, cp_delete,
                           exhausted, err>>
    /\ Fixed

BackwardClear ==
    /\ pc = "bwd_write"
    /\ deferred_cp' = {}
    /\ Yield(Clear(TRUE, TRUE))
    /\ pc' = "bwd_clear"
    /\ UNCHANGED <<n, r, i, snapshots, cp_delete, exhausted, err>>
    /\ Fixed

(* The Backward branch configured as the Forward branch is.                *)
BackwardConfigureIcs ==
    /\ pc = "bwd_clear"
    /\ Yield(Configure(Cur.n_0 \notin snapshots, FALSE))
    /\ pc' = "bwd_configure"
    /\ UNCHANGED <<n, r, i, snapshots, deferred_cp, cp_delete, exhausted, err>>
    /\ Fixed

BackwardConfigure ==
    /\ pc = "bwd_clear"
    /\ Yield(Configure(FALSE, TRUE))
    /\ pc' = "bwd_configure"
    /\ UNCHANGED <<n, r, i, snapshots, deferred_cp, cp_delete, exhausted, err>>
    /\ Fixed

BackwardAdvance ==
    /\ pc = "bwd_configure"
    /\ n' = Cur.n_0 + 1
    /\ Yield(Forward(Cur.n_0, Cur.n_0 + 1))
    /\ pc' = "bwd_forward"
    /\ UNCHANGED <<r, i, snapshots, deferred_cp, cp_delete, exhausted, err>>
    /\ Fixed

BackwardEndForward ==
    /\ pc = "bwd_forward"
    /\ n = max_n
    /\ IF r # 0
       THEN Throw(InvalidState)
       ELSE /\ Yield(EndForward)
            /\ pc' = "bwd_endforward"
            /\ UNCHANGED <<n, r, i, snapshots, deferred_cp, cp_delete,
                           exhausted, err>>
    /\ Fixed

BackwardReverse ==
    /\ (pc = "bwd_forward" /\ n # max_n) \/ pc = "bwd_endforward"
    /\ r' = r + 1
    /\ Yield(Reverse(Cur.n_0 + 1, Cur.n_0))
    /\ pc' = "loop"
    /\ i' = i + 1
    /\ UNCHANGED <<n, snapshots, deferred_cp, cp_delete, exhausted, err>>
    /\ Fixed

(* Lines 137-146: the value cp_delete has after them; an exception of      *)
(* action(i + 2) or of the Discard check comes back as the error.          *)
ReadDelete ==
    IF Cur.n_0 = max_n - r - 1 THEN [err |-> "none", val |-> "True"]
    ELSE IF i < Len(schedule) - 2
    THEN LET d == action(schedule[i + 3])
         IN  IF d.err # "none" THEN [err |-> d.err, val |-> cp_delete]
             ELSE IF d.cp_action = "Discard"
             THEN IF d.n_0 # Cur.n_0 \/ d.storage # Cur.storage
                  THEN [err |-> InvalidSchedule, val |-> cp_delete]
                  ELSE [err |-> "none", val |-> "True"]
             ELSE [err |-> "none", val |-> "False"]
    ELSE [err |-> "none", val |-> cp_delete]

(* Lines 133-152.                                                          *)
ReadBegin ==
    /\ Ready
    /\ Cur.err = "none"
    /\ Cur.cp_action = "Read"
    /\ IF deferred_cp # {}
       THEN Throw(InvalidState)
       ELSE IF ReadDelete.err # "none"
       THEN Throw(ReadDelete.err)
       ELSE /\ cp_delete' = ReadDelete.val
            /\ Yield(Clear(TRUE, TRUE))
            /\ pc' = "read_clear"
            /\ UNCHANGED <<n, r, i, snapshots, deferred_cp, exhausted, err>>
    /\ Fixed

ReadEmit ==
    /\ pc = "read_clear"
    /\ IF cp_delete = "unbound"
       THEN Throw("UnboundLocalError")
       ELSE IF cp_delete = "True" /\ Cur.n_0 \notin snapshots
       THEN Throw("KeyError")
       ELSE /\ snapshots' = IF cp_delete = "True"
                            THEN snapshots \ {Cur.n_0} ELSE snapshots
            /\ n' = Cur.n_0
            /\ Yield(Read(Cur.n_0, Cur.storage, cp_delete = "True"))
            /\ pc' = "loop"
            /\ i' = i + 1
            /\ UNCHANGED <<r, deferred_cp, cp_delete, exhausted, err>>
    /\ Fixed

(* Lines 159-166: the new write is deferred, and flushed at once when the  *)
(* operation before it is a Read.                                          *)
DeferWrite ==
    IF i > 0 /\ action(schedule[i]).cp_action = "Read"
    THEN IF action(schedule[i]).n_0 # Cur.n_0
         THEN /\ deferred_cp' = {<<Cur.n_0, Cur.storage>>}
              /\ pc' = "error"
              /\ err' = InvalidSchedule
              /\ UNCHANGED <<n, r, i, snapshots, cp_delete, exhausted, out>>
         ELSE /\ deferred_cp' = {<<Cur.n_0, Cur.storage>>}
              /\ snapshots' = snapshots \cup {Cur.n_0}
              /\ Yield(Write(Cur.n_0, Cur.storage))
              /\ pc' = "write_now"
              /\ UNCHANGED <<n, r, i, cp_delete, exhausted, err>>
    ELSE /\ deferred_cp' = {<<Cur.n_0, Cur.storage>>}
         /\ pc' = "loop"
         /\ i' = i + 1
         /\ UNCHANGED <<n, r, snapshots, cp_delete, exhausted, err, out>>

(* Lines 153-166.                                                          *)
WriteBegin ==
    /\ Ready
    /\ Cur.err = "none"
    /\ Cur.cp_action = "Write"
    /\ IF Cur.n_0 # n
       THEN Throw(InvalidState)
       ELSE IF deferred_cp # {}
       THEN /\ snapshots' = snapshots \cup {FlushStep}
            /\ Yield(FlushWrite)
            /\ pc' = "write_flush"
            /\ UNCHANGED <<n, r, i, deferred_cp, cp_delete, exhausted, err>>
       ELSE DeferWrite
    /\ Fixed

WriteDefer ==
    /\ pc = "write_flush"
    /\ DeferWrite
    /\ Fixed

WriteDone ==
    /\ pc = "write_now"
    /\ deferred_cp' = {}
    /\ pc' = "loop"
    /\ i' = i + 1
    /\ UNCHANGED <<n, r, snapshots, cp_delete, exhausted, err, out>>
    /\ Fixed

(* Lines 167-174.                                                          *)
DiscardMatches ==
    /\ i >= 2
    /\ action(schedule[i - 1]).cp_action = "Read"
    /\ action(schedule[i - 1]).n_0 = Cur.n_0
    /\ action(schedule[i - 1]).storage = Cur.storage

DiscardCheck ==
    /\ Ready
    /\ Cur.err = "none"
    /\ Cur.cp_action = "Discard"
    /\ IF ~DiscardMatches
       THEN Throw(InvalidSchedule)
       ELSE /\ pc' = "loop"
            /\ i' = i + 1
            /\ UNCHANGED <<n, r, snapshots, deferred_cp, cp_delete, exhausted,
                           err, out>>
    /\ Fixed

(* The end of the vector without the test of line 178.                     *)
FinishUnchecked ==
    /\ pc = "loop"
    /\ closed
    /\ i = Len(schedule)
    /\ Yield(Clear(TRUE, TRUE))
    /\ pc' = "end_clear"
    /\ UNCHANGED <<n, r, i, snapshots, deferred_cp, cp_delete, exhausted, err>>
    /\ Fixed

(* Lines 178-184.                                                          *)
Finish ==
    /\ pc = "loop"
    /\ closed
    /\ i = Len(schedule)
    /\ IF snapshots # {}
       THEN Throw(InvalidState)
       ELSE /\ Yield(Clear(TRUE, TRUE))
            /\ pc' = "end_clear"
            /\ UNCHANGED <<n, r, i, snapshots, deferred_cp, cp_delete,
                           exhausted, err>>
    /\ Fixed

FinishEndReverse ==
    /\ pc = "end_clear"
    /\ exhausted' = TRUE
    /\ Yield(EndReverse(TRUE))
    /\ pc' = "done"
    /\ UNCHANGED <<n, r, i, snapshots, deferred_cp, cp_delete, err>>
    /\ Fixed

----------------------------------------------------------------------------
(* TwoLevelCheckpointSchedule.  The generator _iterator is at "tl_new"     *)
(* before the first pull and otherwise suspended at one of its yields:     *)
(* "tl_fwd" (line 71), "tl_endfwd" (73), "tl_restore_pop" (94, 96),        *)
(* "tl_restore" (100, 102), "tl_first" (112), "tl_advance" (123),          *)
(* "tl_adj" (134), "tl_rev" (137), "tl_endrev" (149).  Each action is one  *)
(* pull: the code from one yield to the next.                              *)

(* Lines 46-59.                                                            *)
TwoLevelConstruct ==
    /\ pc = "new"
    /\ cfg.source = "twolevel"
    /\ IF cfg.period < 1 \/ cfg.binomial_storage \notin {"RAM", "disk"}
       THEN build' = "ValueError" /\ pc' = "failed"
       ELSE build' = "ok" /\ pc' = "tl_new"
    /\ UNCHANGED <<cfg, schedule, closed, max_n, n, r, i, snapshots,
                   deferred_cp, cp_delete, exhausted, err, out, tl, advanced>>

(* utils.n_advance(n, snapshots, trajectory): the values it may return,    *)
(* some number of steps in [1, n].                                         *)
n_advance(steps, n_snapshots) == 1..steps

(* n_advance is a function of its arguments: called again with the same    *)
(* arguments it returns what it returned before.                           *)
Advance(steps, n_snapshots) ==
    IF <<steps, n_snapshots>> \in DOMAIN advanced
    THEN {advanced[<<steps, n_snapshots>>]}
    ELSE n_advance(steps, n_snapshots)

Returned(steps, n_snapshots, k) ==
    advanced' = advanced @@ (<<steps, n_snapshots>> :> k)

(* The positions of `out` that hold an action of the given kind.           *)
Emitted(kind) == {j \in 1..Len(out) : out[j][1] = kind}

TLFixed ==
    UNCHANGED <<cfg, schedule, closed, build, i, deferred_cp, cp_delete,
                exhausted>>

(* raise RuntimeError("Invalid checkpointing state"), the stack being as   *)
(* the code before the raise left it.                                      *)
TLRaise(stack) ==
    /\ pc' = "error"
    /\ err' = InvalidState
    /\ snapshots' = stack
    /\ UNCHANGED <<max_n, n, r, out, tl, advanced>>

(* The forward phase without the assignment of line 70.                    *)
TLForwardInPlace ==
    /\ pc \in {"tl_new", "tl_fwd"}
    /\ max_n = None
    /\ n + cfg.period <= MaxSteps
    /\ Yield(ForwardTo(n, n + cfg.period, TRUE, FALSE, "disk"))
    /\ pc' = "tl_fwd"
    /\ UNCHANGED <<max_n, n, r, snapshots, err, tl, advanced>>
    /\ TLFixed

(* Lines 64-71.  The forward phase goes on for as long as the model's      *)
(* bound on the number of steps allows.                                    *)
TLForward ==
    /\ pc \in {"tl_new", "tl_fwd"}
    /\ max_n = None
    /\ n + cfg.period <= MaxSteps
    /\ n' = n + cfg.period
    /\ Yield(ForwardTo(n, n + cfg.period, TRUE, FALSE, "disk"))
    /\ pc' = "tl_fwd"
    /\ UNCHANGED <<max_n, r, snapshots, err, tl, advanced>>
    /\ TLFixed

(* CheckpointSchedule.finalize(m), called by the consumer between two      *)
(* pulls of the forward phase: the forward calculation has m steps, none   *)
(* of them beyond the position reached.                                    *)
Finalize(m) ==
    /\ pc \in {"tl_new", "tl_fwd"}
    /\ max_n = None
    /\ m >= 1
    /\ m <= n
    /\ max_n' = m
    /\ n' = m
    /\ UNCHANGED <<pc, r, snapshots, err, out, tl, advanced>>
    /\ TLFixed

(* Lines 64 and 73.                                                        *)
TLEndForward ==
    /\ pc \in {"tl_new", "tl_fwd"}
    /\ max_n # None
    /\ Yield(EndForward)
    /\ pc' = "tl_endfwd"
    /\ UNCHANGED <<max_n, n, r, snapshots, err, tl, advanced>>
    /\ TLFixed

(* Lines 133-134.                                                          *)
AdjForward(stack) ==
    /\ n' = n + 1
    /\ Yield(ForwardTo(n, n + 1, FALSE, TRUE, "ADJ_DEPS"))
    /\ snapshots' = stack
    /\ pc' = "tl_adj"
    /\ UNCHANGED <<max_n, r, err, tl, advanced>>

(* The inner advance loop without the test of line 130.                    *)
AdvanceOrAdjUnchecked(stack) ==
    IF n < max_n - r - 1
    THEN \E k \in Advance(max_n - r - n,
                          cfg.binomial_snapshots + 1 - Len(stack)) :
            /\ Returned(max_n - r - n,
                        cfg.binomial_snapshots + 1 - Len(stack), k)
            /\ n' = n + k
            /\ Yield(ForwardTo(n, n + k, TRUE, FALSE, cfg.binomial_storage))
            /\ tl' = [tl EXCEPT !.n0 = n]
            /\ snapshots' = stack
            /\ pc' = "tl_advance"
            /\ UNCHANGED <<max_n, r, err>>
    ELSE AdjForward(stack)

(* Lines 114-134, from the head of the inner advance loop.                 *)
AdvanceOrAdj(stack) ==
    IF n < max_n - r - 1
    THEN \E k \in Advance(max_n - r - n,
                          cfg.binomial_snapshots + 1 - Len(stack)) :
            /\ Returned(max_n - r - n,
                        cfg.binomial_snapshots + 1 - Len(stack), k)
            /\ n' = n + k
            /\ Yield(ForwardTo(n, n + k, TRUE, FALSE, cfg.binomial_storage))
            /\ tl' = [tl EXCEPT !.n0 = n]
            /\ snapshots' = stack
            /\ pc' = "tl_advance"
            /\ UNCHANGED <<max_n, r, err>>
    ELSE IF n # max_n - r - 1
         THEN TLRaise(stack)
         ELSE AdjForward(stack)

(* The restart without the pop of line 91.                                 *)
RestoreNoPop(stack, n0s) ==
    IF Len(stack) = 0
    THEN TLRaise(stack)
    ELSE LET cp_n == stack[Len(stack)]
         IN  /\ n' = cp_n
             /\ snapshots' = stack
             /\ IF cp_n = max_n - r - 1
                THEN /\ Yield(IF cp_n = n0s
                              THEN Copy(cp_n, "disk", "FWD_RESTART")
                              ELSE Move(cp_n, cfg.binomial_storage,
                                        "FWD_RESTART"))
                     /\ pc' = "tl_restore_pop"
                ELSE /\ Yield(IF cp_n = n0s
                              THEN Copy(cp_n, "disk", "FWD_RESTART")
                              ELSE Copy(cp_n, cfg.binomial_storage,
                                        "FWD_RESTART"))
                     /\ pc' = "tl_restore"
             /\ tl' = [tl EXCEPT !.n0s = n0s]
             /\ UNCHANGED <<max_n, r, err, advanced>>

(* Lines 87-102: restart from the checkpoint on top of the stack.          *)
Restore(stack, n0s) ==
    IF Len(stack) = 0
    THEN TLRaise(stack)
    ELSE LET cp_n == stack[Len(stack)]
         IN  /\ n' = cp_n
             /\ IF cp_n = max_n - r - 1
                THEN /\ snapshots' = SubSeq(stack, 1, Len(stack) - 1)
                     /\ Yield(IF cp_n = n0s
                              THEN Copy(cp_n, "disk", "FWD_RESTART")
                              ELSE Move(cp_n, cfg.binomial_storage,
                                        "FWD_RESTART"))
                     /\ pc' = "tl_restore_pop"
                ELSE /\ snapshots' = stack
                     /\ Yield(IF cp_n = n0s
                              THEN Copy(cp_n, "disk", "FWD_RESTART")
                              ELSE Copy(cp_n, cfg.binomial_storage,
                                        "FWD_RESTART"))
                     /\ pc' = "tl_restore"
             /\ tl' = [tl EXCEPT !.n0s = n0s]
             /\ UNCHANGED <<max_n, r, err, advanced>>

(* Lines 77-86: the period block of the next step to reverse.              *)
BeginBlock ==
    LET n0s == ((max_n - r - 1) \div cfg.period) * cfg.period
        n1s == MinOf({n0s + cfg.period, max_n})
    IN  IF r # max_n - n1s
        THEN TLRaise(snapshots)
        ELSE Restore(<<n0s>>, n0s)

(* Lines 75-77 after EndForward or EndReverse: the next reverse pass.      *)
(* The model stops after MaxPass passes.                                   *)
TLPass ==
    /\ pc \in {"tl_endfwd", "tl_endrev"}
    /\ Cardinality(Emitted("EndReverse")) < MaxPass
    /\ r < max_n
    /\ BeginBlock
    /\ TLFixed

(* Lines 104-112.                                                          *)
TLFirstAdvance ==
    /\ pc = "tl_restore"
    /\ \E k \in Advance(max_n - r - n,
                        cfg.binomial_snapshots + 1 - Len(snapshots) + 1) :
          /\ Returned(max_n - r - n,
                      cfg.binomial_snapshots + 1 - Len(snapshots) + 1, k)
          /\ n' = n + k
          /\ Yield(ForwardTo(n, n + k, FALSE, FALSE, "FWD_RESTART"))
    /\ pc' = "tl_first"
    /\ UNCHANGED <<max_n, r, snapshots, err, tl>>
    /\ TLFixed

(* Lines 114-134 after the yield of line 112.                              *)
TLAfterFirst ==
    /\ pc = "tl_first"
    /\ AdvanceOrAdj(snapshots)
    /\ TLFixed

(* Lines 125-134 after the yield of line 123.                              *)
TLAfterAdvance ==
    /\ pc = "tl_advance"
    /\ IF Len(snapshots) >= cfg.binomial_snapshots + 1
       THEN TLRaise(snapshots)
       ELSE AdvanceOrAdj(Append(snapshots, tl.n0))
    /\ TLFixed

(* Lines 133-134 after the yield of line 94 or 96.                         *)
TLAdjForward ==
    /\ pc = "tl_restore_pop"
    /\ AdjForward(snapshots)
    /\ TLFixed

(* Lines 136-137.                                                          *)
TLReverse ==
    /\ pc = "tl_adj"
    /\ r' = r + 1
    /\ Yield(ReverseClear(n, n - 1, TRUE))
    /\ pc' = "tl_rev"
    /\ UNCHANGED <<max_n, n, snapshots, err, tl, advanced>>
    /\ TLFixed

(* Lines 151-153 (is_exhausted of the two-level schedule, always False)    *)
(* and hrevolve.py lines 186-187.                                          *)
is_exhausted == IF cfg.source = "twolevel" THEN FALSE ELSE exhausted

(* Lines 155-167.                                                          *)
uses_storage_type(storage_type) == storage_type = cfg.binomial_storage

(* The end of a pass without the reset of line 148.                        *)
TLAfterReverseNoReset ==
    /\ pc = "tl_rev"
    /\ IF r < max_n - tl.n0s
       THEN Restore(snapshots, tl.n0s)
       ELSE IF r # max_n - tl.n0s \/ Len(snapshots) # 0
            THEN TLRaise(snapshots)
            ELSE IF r < max_n
                 THEN BeginBlock
                 ELSE /\ Yield(EndReverse(FALSE))
                      /\ pc' = "tl_endrev"
                      /\ UNCHANGED <<max_n, n, r, snapshots, err, tl,
                                     advanced>>
    /\ TLFixed

(* Lines 86-102 and 139-149 after the yield of line 137: the next step of  *)
(* the block, the next block, or the end of the pass.                      *)
TLAfterReverse ==
    /\ pc = "tl_rev"
    /\ IF r < max_n - tl.n0s
       THEN Restore(snapshots, tl.n0s)
       ELSE IF r # max_n - tl.n0s \/ Len(snapshots) # 0
            THEN TLRaise(snapshots)
            ELSE IF r < max_n
                 THEN BeginBlock
                 ELSE IF r # max_n
                      THEN TLRaise(snapshots)
                      ELSE /\ r' = 0
                           /\ Yield(EndReverse(FALSE))
                           /\ pc' = "tl_endrev"
                           /\ UNCHANGED <<max_n, n, snapshots, err, tl,
                                          advanced>>
    /\ TLFixed

(* The consumer of a two-level schedule: it builds the schedule, pulls     *)
(* actions, and finalizes max_n during the forward phase.                  *)
NextTwoLevel ==
    \/ TwoLevelConstruct
    \/ TLForward
    \/ \E m \in 1..MaxSteps : Finalize(m)
    \/ TLEndForward
    \/ TLPass
    \/ TLFirstAdvance
    \/ TLAfterFirst
    \/ TLAfterAdvance
    \/ TLAdjForward
    \/ TLReverse
    \/ TLAfterReverse

(* The consumer of an H-Revolve schedule, built by hrevolve or walking a   *)
(* given vector, or of a two-level schedule.                               *)
Next ==
    \/ Construct
    \/ ConstructGiven
    \/ \E op \in VectorOps : Supply(op)
    \/ \E op \in VectorOps : Fill(op)
    \/ \E op \in VectorOps : LookAhead(op)
    \/ \E op \in VectorOps : SupplyLast(op)
    \/ Close
    \/ OpRaises
    \/ ForwardBegin
    \/ ForwardConfigure
    \/ ForwardAdvance
    \/ BackwardBegin
    \/ BackwardClear
    \/ BackwardConfigure
    \/ BackwardAdvance
    \/ BackwardEndForward
    \/ BackwardReverse
    \/ ReadBegin
    \/ ReadEmit
    \/ WriteBegin
    \/ WriteDefer
    \/ WriteDone
    \/ DiscardCheck
    \/ Finish
    \/ FinishEndReverse
    \/ NextTwoLevel

Spec == Init /\ [][Next]_vars

(* The two-level schedule on its own.                                      *)
InitTwoLevel == Init /\ cfg \in TwoLevelConfigs

SpecTwoLevel == InitTwoLevel /\ [][NextTwoLevel]_vars

(* hrevolve_aux and hrevolve_recurse called on their own: a sub-problem of *)
(* l steps at level K with cmem slots, with the tables hoptp and hopt of   *)
(* some lmax >= l (lmax = l when the caller passes no tables, lines        *)
(* 148-149 and 313-314).  cfg.max_n is lmax.                               *)
BuilderConfigs ==
    {c \in [source : {"hrevolve_aux", "hrevolve_recurse"}, max_n : 1..MaxN,
            l : 0..MaxN, K : 0..1, cmem : 0..MaxRam,
            snapshots_in_ram : 0..MaxRam, snapshots_on_disk : 0..MaxDisk,
            wvect : CostPairs, rvect : CostPairs,
            cfwd : 1..MaxStepCost, cbwd : 1..MaxStepCost] :
        /\ c.l <= c.max_n
        /\ c.cmem <= Problem(c).cvect[c.K + 1]}

InitBuilder ==
    /\ cfg \in BuilderConfigs
    /\ schedule = <<>>
    /\ closed = FALSE
    /\ build = "new"
    /\ max_n = None
    /\ n = 0
    /\ r = 0
    /\ i = 0
    /\ pc = "new"
    /\ snapshots = {}
    /\ deferred_cp = {}
    /\ cp_delete = "unbound"
    /\ exhausted = FALSE
    /\ err = "none"
    /\ out = <<>>
    /\ tl = NoBlock
    /\ advanced = <<>>

(* The call returns its sequence or raises.                                *)
Returns(res) ==
    /\ build' = IF res.err = "none" THEN "ok" ELSE res.err
    /\ schedule' = res.ops
    /\ pc' = IF res.err = "none" THEN "returned" ELSE "failed"
    /\ UNCHANGED <<cfg, closed, max_n, n, r, i, snapshots, deferred_cp,
                   cp_delete, exhausted, err, out, tl, advanced>>

(* The call with the tables of lmax, an exception of get_hopt_table        *)
(* coming first.                                                           *)
CallAux ==
    /\ pc = "new"
    /\ cfg.source = "hrevolve_aux"
    /\ LET t == get_hopt_table(Problem(cfg))
       IN  Returns(IF t.err # "none" THEN Raise(t.err)
                   ELSE hrevolve_aux(cfg.l, cfg.K, cfg.cmem, Problem(cfg), t))

CallRecurse ==
    /\ pc = "new"
    /\ cfg.source = "hrevolve_recurse"
    /\ LET t == get_hopt_table(Problem(cfg))
       IN  Returns(IF t.err # "none" THEN Raise(t.err)
                   ELSE hrevolve_recurse(cfg.l, cfg.K, cfg.cmem, Problem(cfg), t))

NextBuilder == CallAux \/ CallRecurse

SpecBuilder == InitBuilder /\ [][NextBuilder]_vars

----------------------------------------------------------------------------
(* Properties.                                                             *)

(* The configurations the H-Revolve schedule accepts: at least one step    *)
(* and at least one checkpoint slot.                                       *)
ValidConfig ==
    /\ cfg.source = "hrevolve"
    /\ cfg.max_n >= 1
    /\ cfg.snapshots_in_ram + cfg.snapshots_on_disk >= 1

(* The schedule object exists and holds the sequence hrevolve built.       *)
Built == cfg.source = "hrevolve" /\ build = "ok"

Last(s) == s[Len(s)]

(* C1: for every valid H-Revolve configuration the action stream raises    *)
(* no error, and once pulled to its end it holds exactly max_n Reverse     *)
(* actions, exactly one EndForward and, after it, exactly one              *)
(* EndReverse(true), which is the last action.                             *)
C1_StreamComplete ==
    (ValidConfig /\ Built) =>
        /\ err = "none"
        /\ pc = "done" =>
            /\ Cardinality(Emitted("Reverse")) = max_n
            /\ Cardinality(Emitted("EndForward")) = 1
            /\ Cardinality(Emitted("EndReverse")) = 1
            /\ Last(out) = EndReverse(TRUE)
            /\ \A j \in Emitted("EndForward") : j < Len(out)

(* The number of checkpoints live at a level after the first j operations  *)
(* of a sequence: a Write makes one live, and the Read that deletes it,    *)
(* the one a Discard of the same level and step follows two operations     *)
(* later, ends it.                                                         *)
RECURSIVE Live(_, _, _)
Live(ops, j, level) ==
    IF j = 0 THEN 0
    ELSE LET op == ops[j]
             before == Live(ops, j - 1, level)
         IN  IF op.type = "Write" /\ op.index[1] = level
             THEN before + 1
             ELSE IF /\ op.type = "Read"
                     /\ op.index[1] = level
                     /\ j + 2 <= Len(ops)
                     /\ ops[j + 2] = Op("Discard", op.index)
                  THEN before - 1
                  ELSE before

(* C2: in the sequence built for a valid configuration, at every point at  *)
(* most snapshots_in_ram checkpoints are live at level 0 and at most       *)
(* snapshots_on_disk at level 1; with snapshots_in_ram = 0 there is no     *)
(* Write to level 0 at all.                                                *)
C2_SlotsRespected ==
    (ValidConfig /\ Built) =>
        \A j \in 0..Len(schedule) :
            /\ Live(schedule, j, 0) <= cfg.snapshots_in_ram
            /\ Live(schedule, j, 1) <= cfg.snapshots_on_disk

(* C3: constructing the schedule succeeds for every valid configuration:   *)
(* hrevolve returns a sequence and raises nothing.                         *)
C3_ConstructSucceeds ==
    (ValidConfig /\ pc # "new") => build = "ok"

(* The adapter is running: on the sequence hrevolve built or on a given    *)
(* vector.                                                                 *)
Adapter == cfg.source \in {"hrevolve", "given"}

TwoLevel == cfg.source = "twolevel"

(* The Reverse actions among out[a + 1 .. b - 1].                          *)
ReversesBetween(a, b) == {k \in Emitted("Reverse") : a < k /\ k < b}

(* Every Reverse the adapter has emitted is Reverse(b + 1, b) with         *)
(* b = max_n - 1 - (the number of Reverse actions before it).              *)
ReverseCountdown ==
    \A j \in Emitted("Reverse") :
        LET b == max_n - 1 - Cardinality(ReversesBetween(0, j))
        IN  out[j] = Reverse(b + 1, b)

(* The adapter is about to take a Backward operation whose step is not     *)
(* the position n or not max_n - r - 1.                                    *)
BackwardMismatch ==
    /\ Adapter
    /\ Ready
    /\ Cur.err = "none"
    /\ Cur.cp_action = "Backward"
    /\ Cur.n_0 # n \/ Cur.n_0 # max_n - r - 1

(* C4: for any operation vector, the Reverse actions the adapter emits     *)
(* are Reverse(b + 1, b) with b going down by one from max_n - 1, and a    *)
(* Backward operation whose step is not max_n - r - 1 or not n raises      *)
(* "Invalid checkpointing state" and emits nothing.                        *)
C4_ReverseCountdown ==
    /\ [](Adapter => ReverseCountdown)
    /\ [][BackwardMismatch =>
            (pc' = "error" /\ err' = InvalidState /\ out' = out)]_vars

(* Two Reverse actions have come out of a given vector, which the adapter  *)
(* then finished.                                                          *)
C4_TwoReverses ==
    /\ cfg.source = "given"
    /\ Cardinality(Emitted("Reverse")) = 2
    /\ pc = "done"

(* The position in `out` of the Forward that precedes the Reverse at j,    *)
(* an EndForward being allowed in between.                                 *)
ForwardBefore(j) == IF out[j - 1] = EndForward THEN j - 2 ELSE j - 1

(* C5: every Reverse(s + 1, s) directly follows the Forward(s, s + 1)      *)
(* that stores the adjoint data: in the adapter Configure(false, true),    *)
(* Forward(s, s + 1), possibly EndForward, Reverse(s + 1, s); in the       *)
(* two-level schedule Forward(s, s + 1, false, true, ADJ_DEPS),            *)
(* Reverse(s + 1, s, true).                                                *)
C5_ReverseAfterAdjForward ==
    \A j \in Emitted("Reverse") :
        LET s == out[j][3]
        IN  IF TwoLevel
            THEN /\ out[j] = ReverseClear(s + 1, s, TRUE)
                 /\ j >= 2
                 /\ out[j - 1] = ForwardTo(s, s + 1, FALSE, TRUE, "ADJ_DEPS")
            ELSE /\ out[j] = Reverse(s + 1, s)
                 /\ ForwardBefore(j) >= 2
                 /\ out[ForwardBefore(j)] = Forward(s, s + 1)
                 /\ out[ForwardBefore(j) - 1] = Configure(FALSE, TRUE)

(* The adapter has emitted its second Reverse, after a Forward that no     *)
(* EndForward follows.                                                     *)
C5_AdapterSecondReverse ==
    /\ cfg.source = "given"
    /\ Cardinality(Emitted("Reverse")) = 2
    /\ out[Len(out) - 1] = Forward(0, 1)
    /\ Last(out) = Reverse(1, 0)

(* C6: the adapter emits EndReverse(true) only with the whole vector       *)
(* consumed and no live snapshot, is_exhausted() is true exactly from      *)
(* that emission on, and a vector that ends with live snapshots raises     *)
(* "Invalid checkpointing state" with no EndReverse and is_exhausted()     *)
(* still false.                                                            *)
C6_EndReverseWhenEmpty ==
    /\ [](Adapter =>
            /\ exhausted <=> Emitted("EndReverse") # {}
            /\ \A j \in Emitted("EndReverse") :
                  /\ j = Len(out)
                  /\ out[j] = EndReverse(TRUE)
                  /\ snapshots = {}
                  /\ closed
                  /\ i = Len(schedule)
            /\ pc = "error" => ~exhausted)
    /\ [][(Adapter /\ pc = "loop" /\ closed /\ i = Len(schedule)
                   /\ snapshots # {}) =>
            (pc' = "error" /\ err' = InvalidState /\ out' = out
                           /\ exhausted' = FALSE)]_vars

(* A given vector that wrote and read back a checkpoint has been walked    *)
(* to its end and EndReverse(true) emitted.                                *)
C6_Exhausted ==
    /\ cfg.source = "given"
    /\ pc = "done"
    /\ exhausted
    /\ Emitted("Write") # {}
    /\ Emitted("Read") # {}

(* C7: for every valid H-Revolve configuration the engine state stays in   *)
(* range after every action of the adapter: 0 <= n <= max_n and            *)
(* 0 <= r <= max_n.                                                        *)
C7_EngineInRange ==
    (ValidConfig /\ Built) =>
        /\ 0 <= n /\ n <= max_n
        /\ 0 <= r /\ r <= max_n

(* The adapter has emitted an action for a sequence hrevolve built.        *)
C7_ActionEmitted == Built /\ out # <<>>

(* The modeled cost of one operation: cfwd per forward step, cbwd per      *)
(* backward step, wvect[level] per Write, rvect[level] per Read.           *)
OpCost(op, p) ==
    IF op.type = "Forward" THEN p.cfwd * (op.index[2] - op.index[1])
    ELSE IF op.type = "Backward" THEN p.cbwd
    ELSE IF op.type = "Write" THEN p.wvect[op.index[1] + 1]
    ELSE IF op.type = "Read" THEN p.rvect[op.index[1] + 1]
    ELSE 0

RECURSIVE ScheduleCost(_, _)
ScheduleCost(ops, p) ==
    IF ops = <<>> THEN 0
    ELSE OpCost(Head(ops), p) + ScheduleCost(Tail(ops), p)

(* The entry opt[K-1][L][cvect[K-1]] of the tables of a configuration.     *)
TopCell(p) ==
    get_hopt_table(p).opt[<<Levels(p) - 1, p.lmax, p.cvect[Levels(p)]>>]

(* C8: the modeled cost of the sequence hrevolve builds for L = max_n      *)
(* steps equals the table entry opt[K-1][L][cvect[K-1]].                   *)
C8_CostMatchesTable ==
    (ValidConfig /\ Built) =>
        ScheduleCost(schedule, Problem(cfg)) = TopCell(Problem(cfg))

(* The leading actions of `out` that are the periodic forward steps        *)
(* Forward(j * period, (j + 1) * period, true, false, DISK), j = 0, 1, ... *)
IsPeriodic(j) ==
    out[j] = ForwardTo((j - 1) * cfg.period, j * cfg.period, TRUE, FALSE,
                       "disk")

ForwardPhaseLen ==
    Cardinality({j \in 1..Len(out) : \A k \in 1..j : IsPeriodic(k)})

(* C9: while max_n is unset the two-level schedule emits only the          *)
(* periodic forward steps, the i-th being Forward(i * period,              *)
(* (i + 1) * period, true, false, DISK) and leaving n at (i + 1) * period; *)
(* once max_n is set the next action is EndForward, which is emitted       *)
(* exactly once.                                                           *)
C9_ForwardPhase ==
    /\ [](TwoLevel =>
            /\ max_n = None =>
                  /\ ForwardPhaseLen = Len(out)
                  /\ n = Len(out) * cfg.period
            /\ Cardinality(Emitted("EndForward")) <= 1
            /\ Len(out) > ForwardPhaseLen =>
                  /\ out[ForwardPhaseLen + 1] = EndForward
                  /\ max_n # None)
    /\ [][(TwoLevel /\ max_n # None /\ Emitted("EndForward") = {}
                    /\ out' # out) =>
            out' = Append(out, EndForward)]_vars

(* After two or more periodic forward steps max_n was set and EndForward   *)
(* emitted.                                                                *)
C9_ForwardThenEnd ==
    /\ TwoLevel
    /\ ForwardPhaseLen >= 2
    /\ Len(out) > ForwardPhaseLen
    /\ out[ForwardPhaseLen + 1] = EndForward

(* The position of the EndReverse that ends the pass before position j,    *)
(* 0 in the first pass.                                                    *)
PassStart(j) ==
    LET ends == {k \in Emitted("EndReverse") : k < j}
    IN  IF ends = {} THEN 0 ELSE CHOOSE k \in ends : \A e \in ends : e <= k

(* The Reverse actions of the pass of position j that come before j.       *)
PassReverses(j) == Cardinality(ReversesBetween(PassStart(j), j))

(* C10: in every reverse pass of the two-level schedule each Reverse is    *)
(* Reverse(max_n - r, max_n - r - 1) for the r before it, r counting the   *)
(* Reverse actions of the pass, and EndReverse(false) comes only after     *)
(* exactly max_n of them, whatever n_advance returns.                      *)
C10_PassCountdown ==
    TwoLevel =>
        /\ \A j \in Emitted("Reverse") :
              out[j] = ReverseClear(max_n - PassReverses(j),
                                    max_n - PassReverses(j) - 1, TRUE)
        /\ \A j \in Emitted("EndReverse") :
              /\ out[j] = EndReverse(FALSE)
              /\ PassReverses(j) = max_n
        /\ r = PassReverses(Len(out) + 1)

(* Two whole passes over three or more steps, with binomial checkpoints    *)
(* taken and moved back.                                                   *)
C10_TwoPasses ==
    /\ TwoLevel
    /\ max_n >= 3
    /\ Cardinality(Emitted("EndReverse")) = 2
    /\ Emitted("Move") # {}

(* The positions of EndForward and of the first EndReverse in `out`, 0     *)
(* when there is none yet.                                                 *)
FirstOf(kind) ==
    IF Emitted(kind) = {} THEN 0
    ELSE CHOOSE k \in Emitted(kind) : \A e \in Emitted(kind) : k <= e

(* The number of actions of the first reverse pass, its EndReverse         *)
(* included.                                                               *)
PassLen == FirstOf("EndReverse") - FirstOf("EndForward")

(* C11: the two-level schedule is restartable: is_exhausted is false at    *)
(* every point, r is 0 again once EndReverse(false) is emitted, and the    *)
(* actions pulled after the first EndReverse repeat the actions of the     *)
(* first reverse pass one for one, EndReverse(false) included.             *)
C11_Restartable ==
    TwoLevel =>
        /\ ~is_exhausted
        /\ pc = "tl_endrev" => (r = 0 /\ Last(out) = EndReverse(FALSE))
        /\ FirstOf("EndReverse") > 0 =>
              \A j \in (FirstOf("EndReverse") + 1)..Len(out) :
                  out[j] = out[j - PassLen]

(* A second pass over four or more steps has ended, n_advance having been  *)
(* called in both.                                                         *)
C11_SecondPassDone ==
    /\ TwoLevel
    /\ max_n >= 4
    /\ DOMAIN advanced # {}
    /\ pc = "tl_endrev"
    /\ Len(out) = FirstOf("EndReverse") + PassLen

(* The binomial checkpoints written so far in the reverse phase: the       *)
(* Forward actions after EndForward that write their initial condition to  *)
(* binomial_storage.                                                       *)
BinomialWrites ==
    {j \in Emitted("Forward") :
        /\ FirstOf("EndForward") > 0
        /\ j > FirstOf("EndForward")
        /\ out[j][4] = TRUE
        /\ out[j][6] = cfg.binomial_storage}

(* The binomial checkpoints moved back to the forward restart slot.        *)
BinomialMoves ==
    {j \in Emitted("Move") :
        out[j] = Move(out[j][2], cfg.binomial_storage, "FWD_RESTART")}

(* The binomial checkpoints live after the last action emitted: written    *)
(* and not moved back since.                                               *)
LiveBinomial ==
    Cardinality({j \in BinomialWrites :
        ~ \E k \in BinomialMoves : k > j /\ out[k][2] = out[j][2]})

(* C12: over the whole action stream of the two-level schedule the number  *)
(* of checkpoints live in binomial_storage never exceeds                   *)
(* binomial_snapshots: no Forward that writes one checkpoint too many is   *)
(* emitted before the capacity error is raised.                            *)
C12_BinomialCapacity ==
    (TwoLevel /\ build = "ok") => LiveBinomial <= cfg.binomial_snapshots

(* The storage types an action of the two-level schedule names: the        *)
(* storage of a Forward, the source and the destination of a Copy or Move. *)
StoragesOf(a) ==
    IF a[1] = "Forward" THEN {a[6]}
    ELSE IF a[1] \in {"Copy", "Move"} THEN {a[3], a[4]}
    ELSE {}

(* C13: uses_storage_type(t) of the two-level schedule is true for every   *)
(* storage type t of RAM and DISK that an emitted action names as its      *)
(* storage, source or destination.                                         *)
C13_UsesEmittedStorage ==
    TwoLevel =>
        \A j \in 1..Len(out) :
            \A t \in StoragesOf(out[j]) \cap {"RAM", "disk"} :
                uses_storage_type(t)

(* The configuration errors: a period below 1 or a binomial storage that   *)
(* is neither RAM nor DISK for the two-level schedule, no checkpoint slot  *)
(* at all for the H-Revolve schedule.                                      *)
ConfigError ==
    \/ /\ cfg.source = "twolevel"
       /\ (cfg.period < 1 \/ cfg.binomial_storage \notin {"RAM", "disk"})
    \/ /\ cfg.source = "hrevolve"
       /\ cfg.snapshots_in_ram = 0
       /\ cfg.snapshots_on_disk = 0

(* C14: a configuration error fails at construction, before any action     *)
(* can be pulled: the constructor raises for a period below 1, for an      *)
(* invalid binomial storage, and for snapshots_in_ram = snapshots_on_disk  *)
(* = 0 with any max_n >= 1.                                                *)
C14_ConfigErrorAtConstruction ==
    (ConfigError /\ pc # "new") => (build \notin {"new", "ok"} /\ out = <<>>)

(* The adapter is about to take an operation that does not fit its state:  *)
(* a Forward or a Write whose step is not n, or a Backward whose step is   *)
(* not n or not max_n - r - 1.                                             *)
StateMismatch ==
    /\ Adapter
    /\ Ready
    /\ Cur.err = "none"
    /\ \/ Cur.cp_action \in {"Forward", "Write"} /\ Cur.n_0 # n
       \/ Cur.cp_action = "Backward"
            /\ (Cur.n_0 # n \/ Cur.n_0 # max_n - r - 1)

(* C15: on a Forward or Write operation whose step differs from n, or a    *)
(* Backward operation whose step differs from n or from max_n - r - 1,     *)
(* the adapter raises "Invalid checkpointing state", emits no action for   *)
(* that operation and none afterwards, and leaves n, r, snapshots and the  *)
(* pending deferred_cp as they were.                                       *)
C15_MismatchIsFatal ==
    /\ [][StateMismatch =>
            /\ pc' = "error"
            /\ err' = InvalidState
            /\ UNCHANGED <<out, n, r, snapshots, deferred_cp>>]_vars
    /\ [][(Adapter /\ pc = "error") => UNCHANGED <<out, pc, err>>]_vars

(* The adapter has stopped on a Write whose step is not n, after emitting  *)
(* actions and with an earlier write still pending.                        *)
C15_WriteOffPosition ==
    /\ Adapter
    /\ pc = "error"
    /\ err = InvalidState
    /\ HasOp
    /\ Cur.err = "none"
    /\ Cur.cp_action = "Write"
    /\ Cur.n_0 # n
    /\ deferred_cp # {}
    /\ out # <<>>

(* The tables get_hopt_table returns for the configuration of an           *)
(* H-Revolve schedule.                                                     *)
Tables == get_hopt_table(Problem(cfg))

(* C16: for lmax >= 2 and at least one slot at level 0, the tables         *)
(* get_hopt_table returns are finite at length lmax: opt[k][lmax][m] and   *)
(* optp[k][lmax][m] for every level k and every m >= 1, the top-level      *)
(* cell opt[K-1][lmax][cvect[K-1]] among them.                             *)
C16_FiniteAtLmax ==
    (cfg.source = "hrevolve" /\ pc # "new" /\ cfg.max_n >= 2
        /\ cfg.snapshots_in_ram >= 1 /\ Tables.err = "none") =>
        /\ \A c \in Cells(Problem(cfg)) :
              (c[2] = cfg.max_n /\ c[3] >= 1) =>
                 (Tables.opt[c] < Inf /\ Tables.optp[c] < Inf)
        /\ TopCell(Problem(cfg)) < Inf

(* C17: in the tables get_hopt_table returns, for every level k and slot   *)
(* count m with (k, m) # (0, 0), optp[k][1][m] = cfwd + 2 * cbwd +         *)
(* rvect[0] and opt[k][1][m] = wvect[0] + optp[k][1][m]: the fill of the   *)
(* levels k >= 1 leaves the l = 1 cells as the borders set them.           *)
C17_BaseLengthOne ==
    (cfg.source = "hrevolve" /\ pc # "new" /\ Tables.err = "none") =>
        \A c \in Cells(Problem(cfg)) :
            (c[2] = 1 /\ ~(c[1] = 0 /\ c[3] = 0)) =>
                /\ Tables.optp[c] = cfg.cfwd + 2 * cfg.cbwd + cfg.rvect[1]
                /\ Tables.opt[c] = cfg.wvect[1] + Tables.optp[c]

(* The adapter is about to take a Write_Forward or Discard_Forward         *)
(* operation.                                                              *)
AtMarker ==
    /\ Adapter
    /\ Ready
    /\ schedule[i + 1].type \in {"Write_Forward", "Discard_Forward"}

(* C18: on a Write_Forward or Discard_Forward operation the adapter emits  *)
(* no action, raises no error, leaves n, r, snapshots and deferred_cp      *)
(* unchanged and goes on to the next operation.                            *)
C18_MarkersSkipped ==
    [][AtMarker =>
          /\ i' = i + 1
          /\ pc' = "loop"
          /\ UNCHANGED <<err, out, n, r, snapshots, deferred_cp>>]_vars

(* The delete flag the Read operation at index i is to carry: its step is  *)
(* the next one to reverse, or the operation at index i + 2 is the Discard *)
(* of the same level and step.                                             *)
DeleteExpected ==
    \/ Cur.n_0 = max_n - r - 1
    \/ /\ i + 3 <= Len(schedule)
       /\ schedule[i + 3] = Op("Discard", schedule[i + 1].index)

(* C19: the Read action emitted for a Read operation carries delete = true *)
(* exactly when its step is max_n - r - 1 or the operation two positions   *)
(* later is the matching Discard, and delete = false in every other case,  *)
(* fewer than two operations following included, whatever an earlier Read  *)
(* did.  (A Read that is to delete a step that is not in snapshots is left *)
(* aside.)                                                                 *)
C19_ReadDeleteFlag ==
    [][(Adapter /\ pc = "read_clear"
          /\ ~(DeleteExpected /\ Cur.n_0 \notin snapshots)) =>
            out' = Append(out, Read(Cur.n_0, Cur.storage, DeleteExpected))]_vars

(* The Write operations of the vector, in order, each as the Write action  *)
(* it stands for.                                                          *)
WriteOps ==
    LET w == SelectSeq(schedule, LAMBDA op : op.type = "Write")
    IN  [j \in 1..Len(w) |-> Write(w[j].index[2], StorageName(w[j].index[1]))]

(* The Write actions emitted, in order.                                    *)
WriteActions == SelectSeq(out, LAMBDA a : a[1] = "Write")

(* C20: when the adapter has processed a vector to its end without error,  *)
(* every Write operation has led to exactly one Write(n0, storage) action, *)
(* in the order of the operations: no Write is dropped; and at most one    *)
(* Write is pending at any time.                                           *)
C20_EveryWriteEmitted ==
    Adapter =>
        /\ Cardinality(deferred_cp) <= 1
        /\ exhausted => WriteActions = WriteOps

(* C21: in every sequence hrevolve_recurse or hrevolve_aux returns, each   *)
(* Discard(level, s) has the Read(level, s) of the same level and step two *)
(* positions before it, the test the adapter makes on a Discard.           *)
C21_DiscardAfterRead ==
    pc = "returned" =>
        \A j \in 1..Len(schedule) :
            schedule[j].type = "Discard" =>
                /\ j >= 3
                /\ schedule[j - 2] = Op("Read", schedule[j].index)

(* hrevolve_aux is called at level 0 with two or more slots on two or more *)
(* steps, and no split point costs strictly less than the single-slot      *)
(* schedule optp[0][l][1].                                                 *)
NoSplitPays ==
    /\ cfg.source = "hrevolve_aux"
    /\ cfg.K = 0
    /\ cfg.l >= 2
    /\ cfg.cmem >= 2
    /\ Tables.err = "none"
    /\ ~(SeqMin(list_mem(Problem(cfg), Tables, cfg.l, 0, cfg.cmem))
            < Tables.optp[<<0, cfg.l, 1>>])

(* C22: hrevolve_aux(l, 0, m) with l >= 2 and m >= 2, when no split point  *)
(* is strictly cheaper than optp[0][l][1], returns without error the       *)
(* sequence of hrevolve_aux(l, 0, 1), the single-slot linear scan.         *)
C22_DelegatesToOneSlot ==
    (NoSplitPays /\ pc # "new") =>
        /\ build = "ok"
        /\ schedule = LinearScan(cfg.l, cfg.l - 1)

(* The operations fit the forward position p as the adapter requires:     *)
(* a Forward(a, b) has a = p and b > a and moves p to b, a Write(level, s) *)
(* has s = p, a Read(level, s) moves p to s, a Backward(s) has s = p and   *)
(* moves p to s + 1.                                                       *)
RECURSIVE PositionsFit(_, _)
PositionsFit(ops, p) ==
    IF ops = <<>> THEN TRUE
    ELSE LET op == Head(ops)
         IN  CASE op.type = "Forward" ->
                    /\ op.index[1] = p
                    /\ op.index[2] > op.index[1]
                    /\ PositionsFit(Tail(ops), op.index[2])
               [] op.type = "Write" ->
                    /\ op.index[2] = p
                    /\ PositionsFit(Tail(ops), p)
               [] op.type = "Read" -> PositionsFit(Tail(ops), op.index[2])
               [] op.type = "Backward" ->
                    /\ op.index[1] = p
                    /\ PositionsFit(Tail(ops), p + 1)
               [] OTHER -> PositionsFit(Tail(ops), p)

(* C23: in every sequence hrevolve_recurse or hrevolve_aux returns, at     *)
(* level 0 and at the levels K >= 1 alike, the operations fit the forward  *)
(* position that starts at the first step of the sub-problem: every        *)
(* Forward starts at it and goes on, every Write and every Backward is at  *)
(* it.                                                                     *)
C23_PositionsConsistent ==
    pc = "returned" => PositionsFit(schedule, 0)

(* The generator of the two-level schedule is inside a period block.       *)
InBlock ==
    pc \in {"tl_restore_pop", "tl_restore", "tl_first", "tl_advance",
            "tl_adj", "tl_rev"}

(* The steps on the snapshot stack above its first entry.                  *)
StackAbove == {snapshots[k] : k \in 2..Len(snapshots)}

(* The steps of the binomial checkpoints written and not moved back since. *)
LiveBinomialSteps ==
    {out[j][2] : j \in {w \in BinomialWrites :
        ~ \E k \in BinomialMoves : k > w /\ out[k][2] = out[w][2]}}

(* Inside a block the stack is the periodic checkpoint n0s with the live   *)
(* binomial checkpoints above it, the one written by the last Forward      *)
(* being pushed at the next pull; it is empty when the block ends.         *)
BlockStack ==
    /\ snapshots # <<>> => snapshots[1] = tl.n0s
    /\ Cardinality(StackAbove) = MaxOf(<<Len(snapshots) - 1, 0>>)
    /\ LiveBinomialSteps =
          StackAbove \cup (IF pc = "tl_advance" THEN {tl.n0} ELSE {})
    /\ (pc = "tl_rev" /\ r = max_n - tl.n0s) => snapshots = <<>>

(* Every Move takes a binomial checkpoint, never a periodic one, from      *)
(* binomial_storage; every Copy takes a periodic checkpoint from DISK and  *)
(* a binomial one from binomial_storage.                                   *)
RestoreSources ==
    /\ \A j \in Emitted("Move") :
          /\ out[j][2] % cfg.period # 0
          /\ out[j] = Move(out[j][2], cfg.binomial_storage, "FWD_RESTART")
    /\ \A j \in Emitted("Copy") :
          out[j] = Copy(out[j][2],
                        IF out[j][2] % cfg.period = 0
                        THEN "disk" ELSE cfg.binomial_storage,
                        "FWD_RESTART")

(* The step that emits a Move pops the top of the stack, which is the next *)
(* step to reverse; the step that emits a Copy pops the stack only when    *)
(* the checkpoint is the next step to reverse, and it is n0s then.         *)
RestoreStep ==
    (TwoLevel /\ Len(out') > Len(out)) =>
        LET a == Last(out')
        IN  /\ a[1] = "Move" =>
                  /\ snapshots # <<>>
                  /\ a[2] = Last(snapshots)
                  /\ a[2] = max_n - r - 1
                  /\ snapshots' = SubSeq(snapshots, 1, Len(snapshots) - 1)
            /\ a[1] = "Copy" =>
                  IF a[2] = max_n - r - 1
                  THEN a[2] = tl'.n0s /\ snapshots' = <<>>
                  ELSE snapshots' # <<>> /\ Last(snapshots') = a[2]

(* C24: within each period block of the two-level reverse phase the        *)
(* periodic checkpoint n0s is only ever copied from DISK, never moved;     *)
(* every step pushed above it is removed by one Move from binomial_storage *)
(* emitted when that step is max_n - r - 1; a checkpoint on top that is    *)
(* not the next step to reverse is copied without being popped; and the    *)
(* stack is empty when the block ends.                                     *)
C24_BlockStack ==
    /\ []((TwoLevel /\ build = "ok") => RestoreSources)
    /\ []((TwoLevel /\ InBlock) => BlockStack)
    /\ [][RestoreStep]_vars

(* A pass has ended in which a binomial checkpoint was copied without      *)
(* being popped and binomial checkpoints were moved back.                  *)
C24_CopiedAndMoved ==
    /\ TwoLevel
    /\ pc = "tl_endrev"
    /\ Emitted("Move") # {}
    /\ \E j \in Emitted("Copy") : out[j][2] % cfg.period # 0

(* The steps of the Backward operations of a sequence, in order.           *)
BackwardSteps(ops) ==
    LET b == SelectSeq(ops, LAMBDA op : op.type = "Backward")
    IN  [j \in 1..Len(b) |-> b[j].index[1]]

(* C25: whenever hrevolve(l, ...) returns, the sequence holds exactly      *)
(* l + 1 Backward operations, of steps l, l - 1, ..., 1, 0 in that order:  *)
(* the first is Backward(l), and the Backward operations of a shifted      *)
(* upper part [jmin, l] all come before those of the lower part.           *)
C25_BackwardCountdown ==
    Built =>
        BackwardSteps(schedule) = [j \in 1..(cfg.max_n + 1) |-> cfg.max_n + 1 - j]

(* hrevolve has returned a sequence for three or more steps that holds a   *)
(* shifted sub-sequence: it writes a checkpoint at a step after the first. *)
C25_SplitBuilt ==
    /\ Built
    /\ cfg.max_n >= 3
    /\ \E k \in 1..Len(schedule) :
          schedule[k].type = "Write" /\ schedule[k].index[2] >= 1

(* The operations of a sequence that write, read or discard a checkpoint   *)
(* of level 1.                                                             *)
DiskOps(ops) ==
    {k \in 1..Len(ops) :
        /\ ops[k].type \in {"Write", "Read", "Discard"}
        /\ ops[k].index[1] = 1}

(* The actions emitted that name disk storage.                             *)
DiskActions ==
    {j \in Emitted("Read") \cup Emitted("Write") : out[j][3] = "disk"}

====
